---- MODULE Spec2Model ----
\* A model of invenio_userprofiles/forms.py: the profile form's filters and
\* validators, its constructor, and the factories that embed it with CSRF
\* disabled.  Strings are sequences of character codes, so that strip(),
\* lower() and the regular expressions are computed, not assumed.
EXTENDS Integers, Sequences, FiniteSets, TLC

VARIABLES
    profiles,      \* user id -> username of the user's profile (None: not set)
    sub,           \* the last submission of the username field and its result
    pending,       \* user id -> a validated username waiting to be saved, and
                   \* whether the store changed since it was validated
    raced,         \* "none": no save yet; "atomic": every save so far was one
                   \* step with its validation; "raced": some save was not
    phone,         \* the last phone field processed and validated
    users,         \* user id -> stored account email (None: not considered)
    mail,          \* the last EmailProfileForm submission and its result
    ctor,          \* the last ProfileForm construction
    csrf           \* the last construction of the embedded, CSRF-disabled form

vars == <<profiles, sub, pending, raced, phone, users, mail, ctor, csrf>>

-----------------------------------------------------------------------------
\* Bounds of the model.

\* Number of registered users (user ids 1..NumUsers; 0 is the anonymous user).
NumUsers == 2

\* Longest phone value submitted.
MaxPhoneLen == 3

\* Longest list the USERPROFILES_READONLY_FIELDS callable returns.
MaxReadonly == 3

-----------------------------------------------------------------------------
\* Strings.

\* Python's None, kept apart from every string (no character has code -1).
None == << -1 >>

\* The characters the inputs are made of, by their code.
Chr == [tab |-> 9, nl |-> 10, sp |-> 32, plus |-> 43, dot |-> 46, d0 |-> 48,
        d4 |-> 52, d9 |-> 57, at |-> 64, A |-> 65, B |-> 66, a |-> 97,
        b |-> 98, c |-> 99]

\* Every string over alphabet of length at most n.
StringsUpTo(alphabet, n) == UNION {[1..k -> alphabet] : k \in 0..n}

\* str.isspace() of one ASCII character.
IsSpace(ch) == ch \in {9, 10, 11, 12, 13, 28, 29, 30, 31, 32}

\* str.lower() of one ASCII character.
LowerChar(ch) == IF ch \in 65..90 THEN ch + 32 ELSE ch

\* str.lower().
Lower(s) == [i \in 1..Len(s) |-> LowerChar(s[i])]

RECURSIVE LStrip(_)
LStrip(s) == IF s # << >> /\ IsSpace(Head(s)) THEN LStrip(Tail(s)) ELSE s

RECURSIVE RStrip(_)
RStrip(s) ==
    IF s # << >> /\ IsSpace(s[Len(s)]) THEN RStrip(SubSeq(s, 1, Len(s) - 1)) ELSE s

\* str.strip().
Strip(s) == RStrip(LStrip(s))

\* Python truthiness of a string or None.
Truthy(x) == x # None /\ x # << >>

\* strip_filter: the text without surrounding whitespace; None and '' as given.
strip_filter(text) == IF Truthy(text) THEN Strip(text) ELSE text

\* StringField.process_formdata: the data of a field whose submitted values are
\* raw_data.  For a field missing from the form data the library leaves None or
\* sets '', depending on its version: missing_data is that value.
process_formdata(raw_data, missing_data) ==
    IF raw_data # << >> THEN raw_data[1] ELSE missing_data

\* The values a field missing from the form data may hold.
MissingData == {None, << >>}

\* validators.DataRequired: the field's data is there and not only whitespace.
\* DataRequired is the username field's only declared validator.
DataRequired(data) == Truthy(data) /\ Strip(data) # << >>

\* validators.Optional: whether validation of the field stops because nothing
\* was submitted for it (no raw value, or a raw value of whitespace only).
Optional(raw_data) == raw_data = << >> \/ Strip(raw_data[1]) = << >>

-----------------------------------------------------------------------------
\* The username field.

Users == 1..NumUsers
Anonymous == 0

IsLetter(ch) == ch \in 65..90 \/ ch \in 97..122
IsNameChar(ch) == IsLetter(ch) \/ ch \in 48..57 \/ ch \in {45, 95}

\* validators.validate_username: TRUE when the username has the required
\* format (a letter, then at least two letters, digits, '-' or '_'); the code
\* raises ValueError otherwise.
validators_validate_username(data) ==
    /\ Len(data) >= 3
    /\ IsLetter(data[1])
    /\ \A i \in 2..Len(data) : IsNameChar(data[i])

\* UserProfile.get_by_username: the one profile whose username is the given
\* one, compared without regard to letter case; NoResultFound when there is
\* none, MultipleResultsFound when there are several.
get_by_username(store, username) ==
    LET rows == {u \in Users : store[u] # None /\ Lower(store[u]) = Lower(username)}
    IN  IF rows = {} THEN [raised |-> "NoResultFound", user_id |-> 0]
        ELSE IF Cardinality(rows) > 1
             THEN [raised |-> "MultipleResultsFound", user_id |-> 0]
             ELSE [raised |-> "", user_id |-> CHOOSE u \in rows : TRUE]

\* api.current_userprofile: the profile of the current user, or the anonymous
\* profile.
current_userprofile(store, cur) ==
    IF cur = Anonymous
    THEN [is_anonymous |-> TRUE, user_id |-> 0, username |-> None]
    ELSE [is_anonymous |-> FALSE, user_id |-> cur, username |-> store[cur]]

\* A bug: only anonymous users are refused a username that is taken.
UsernameTaken_anonymous_only(cup, user_id, data) == cup.is_anonymous

\* A bug: a username that is found is refused, whoever holds it.
UsernameTaken_always(cup, user_id, data) == TRUE

\* A bug: the comparison of the user ids is inverted.
UsernameTaken_same_user(cup, user_id, data) ==
    \/ cup.is_anonymous
    \/ (cup.user_id = user_id /\ data # cup.username)

\* The condition under which validate_username refuses a username that
\* get_by_username found on the profile of user_id.
UsernameTaken(cup, user_id, data) ==
    \/ cup.is_anonymous
    \/ (cup.user_id # user_id /\ data # cup.username)

\* A bug: the lookup runs first and the format is checked afterwards.
ProfileForm_validate_username_lookup_first(store, cur, data) ==
    LET found == get_by_username(store, data)
        cup == current_userprofile(store, cur)
    IN  IF found.raised = "" /\ UsernameTaken(cup, found.user_id, data)
        THEN [errors |-> <<"Username already exists.">>, raised |-> "",
              calls |-> <<"get_by_username">>, lookup |-> "found",
              found |-> found.user_id]
        ELSE IF ~validators_validate_username(data)
        THEN [errors |-> <<"ValueError">>, raised |-> "",
              calls |-> <<"get_by_username", "validate_username">>,
              lookup |-> IF found.raised = "" THEN "found" ELSE found.raised,
              found |-> found.user_id]
        ELSE [errors |-> << >>, raised |-> "",
              calls |-> <<"get_by_username", "validate_username">>,
              lookup |-> IF found.raised = "" THEN "found" ELSE found.raised,
              found |-> found.user_id]

\* ProfileForm.validate_username: the errors it adds to the field, the
\* exception it lets through, the calls it made in order, how the lookup ended
\* and the user whose profile it returned (0: none).
ProfileForm_validate_username(store, cur, data) ==
    IF ~validators_validate_username(data)
    THEN [errors |-> <<"ValueError">>, raised |-> "",
          calls |-> <<"validate_username">>, lookup |-> "", found |-> 0]
    ELSE LET found == get_by_username(store, data)
             cup == current_userprofile(store, cur)
             calls == <<"validate_username", "get_by_username">>
         IN  IF found.raised = "NoResultFound"
             THEN [errors |-> << >>, raised |-> "", calls |-> calls,
                   lookup |-> "NoResultFound", found |-> 0]
             ELSE IF found.raised # ""
             THEN [errors |-> << >>, raised |-> found.raised, calls |-> calls,
                   lookup |-> found.raised, found |-> 0]
             ELSE IF UsernameTaken(cup, found.user_id, data)
             THEN [errors |-> <<"Username already exists.">>, raised |-> "",
                   calls |-> calls, lookup |-> "found", found |-> found.user_id]
             ELSE [errors |-> << >>, raised |-> "", calls |-> calls,
                   lookup |-> "found", found |-> found.user_id]

\* The users other than cur whose profile holds the username, whatever the
\* letter case (what the submission is judged against).
OtherHolders(store, cur, data) ==
    {u \in Users \ {cur} : store[u] # None /\ Lower(store[u]) = Lower(data)}

\* The username field of a submitted ProfileForm: filter, then DataRequired,
\* then, unless DataRequired stopped the chain, validate_username.  Beside the
\* field's result it records what the store held when the field was validated:
\* the current user's own username and the other holders of the submitted one.
username_field(store, cur, raw_data, missing_data) ==
    LET data == strip_filter(process_formdata(raw_data, missing_data))
        seen == [submitted |-> TRUE, user |-> cur, raw_data |-> raw_data,
                 data |-> data,
                 own |-> IF cur = Anonymous THEN None ELSE store[cur],
                 others |-> IF data = None THEN {}
                            ELSE OtherHolders(store, cur, data)]
    IN  IF ~DataRequired(data)
        THEN seen @@ [errors |-> <<"Username not provided.">>, raised |-> "",
                      calls |-> << >>, lookup |-> "", found |-> 0]
        ELSE seen @@ ProfileForm_validate_username(store, cur, data)

\* Whether a processed field was accepted.
Accepted(f) == f.errors = << >> /\ f.raised = ""

\* The profile store after the view saved an accepted username on the current
\* user's profile.
save_username(store, cur, data) == [store EXCEPT ![cur] = data]

\* The usernames submitted: valid ones in several letter cases, one with
\* surrounding whitespace, and ones of a wrong format.
UsernameInputs ==
    { <<Chr.a, Chr.b, Chr.c>>, <<Chr.A, Chr.b, Chr.c>>, <<Chr.a, Chr.B, Chr.c>>,
      <<Chr.b, Chr.a, Chr.b>>, <<Chr.B, Chr.a, Chr.b>>, <<Chr.c, Chr.d4, Chr.a>>,
      <<Chr.sp, Chr.a, Chr.b, Chr.c, Chr.sp>>,
      <<Chr.d4, Chr.a, Chr.b>>, <<Chr.a, Chr.b>>, <<Chr.a, Chr.sp, Chr.c>>,
      <<Chr.sp>>, << >> }

\* The usernames a profile may hold: the submitted ones the format allows.
StoredUsernames ==
    {strip_filter(s) : s \in {t \in UsernameInputs :
                                Truthy(strip_filter(t))
                                /\ validators_validate_username(strip_filter(t))}}

\* No two profiles hold the same username, whatever the letter case.
UniqueUsernames(store) ==
    \A u, v \in Users :
        (u # v /\ store[u] # None /\ store[v] # None)
            => Lower(store[u]) # Lower(store[v])

\* The stores the unique index on the username column allows.
UniqueStores == {s \in [Users -> StoredUsernames \cup {None}] : UniqueUsernames(s)}

NoSubmission ==
    [submitted |-> FALSE, user |-> 0, raw_data |-> << >>, data |-> None, own |-> None, others |-> {},
     errors |-> << >>, raised |-> "", calls |-> << >>, lookup |-> "", found |-> 0]

NoPending == [data |-> None, stale |-> FALSE]

-----------------------------------------------------------------------------
\* Profile editing, one request at a time: the form validates the submission
\* and writes nothing; the view then saves an accepted username.

\* A request of user cur (or of an anonymous visitor) submits the profile form
\* with the given username, and the form validates it.  The store is left as
\* it is.
SubmitProfile(cur, raw_data, missing_data) ==
    /\ sub' = username_field(profiles, cur, raw_data, missing_data)
    /\ UNCHANGED <<profiles, pending, raced, phone, users, mail, ctor, csrf>>

\* The view saves the username of the request that was validated last, a
\* logged-in user's whose form was accepted.
SaveProfile ==
    /\ sub.submitted
    /\ sub.user # Anonymous
    /\ Accepted(sub)
    /\ profiles' = save_username(profiles, sub.user, sub.data)
    /\ UNCHANGED <<sub, pending, raced, phone, users, mail, ctor, csrf>>

\* What a request may carry for a field: nothing, or one string.
RawData(strings) == {<< >>} \cup {<<s>> : s \in strings}

\* A field as submitted: its raw data and, for a field that is missing, the
\* data the library leaves in it.
FieldInputs(strings) ==
    {[raw_data |-> << >>, missing_data |-> m] : m \in MissingData}
        \cup {[raw_data |-> <<s>>, missing_data |-> None] : s \in strings}

-----------------------------------------------------------------------------
\* The phone fields.

IsDigit(ch) == ch \in 48..57

\* re.match(r'^\+[0-9]*$|^$', s): '$' matches at the end of the string and
\* before a newline that ends it.
PhoneRegexp(s) ==
    LET body == IF s # << >> /\ s[Len(s)] = 10 THEN SubSeq(s, 1, Len(s) - 1) ELSE s
        PlusDigits(t) == t # << >> /\ t[1] = 43 /\ \A i \in 2..Len(t) : IsDigit(t[i])
    IN  \/ PlusDigits(s)
        \/ PlusDigits(body)
        \/ s = << >>
        \/ s = <<10>>

PhoneMessage == "Phone number with the international prefix, without spaces, ie +41221234567."

\* home_phone, business_phone, mobile_phone, other_phone: the field's data
\* after strip_filter and the errors of Regexp, which matches field.data or ''.
phone_field(name, raw_data, missing_data) ==
    LET data == strip_filter(process_formdata(raw_data, missing_data))
    IN  [submitted |-> TRUE, name |-> name, raw_data |-> raw_data, data |-> data,
         errors |-> IF PhoneRegexp(IF Truthy(data) THEN data ELSE << >>)
                    THEN << >> ELSE <<PhoneMessage>>]

PhoneFields == {"home_phone", "business_phone", "mobile_phone", "other_phone"}

\* The phone values submitted: every string of '+', a digit, a space, a
\* newline and a letter up to the bound.
PhoneInputs ==
    StringsUpTo({Chr.plus, Chr.d4, Chr.sp, Chr.nl, Chr.a}, MaxPhoneLen)

NoPhone == [submitted |-> FALSE, name |-> "", raw_data |-> << >>, data |-> None, errors |-> << >>]

\* A request submits one of the phone fields.
ValidatePhone(name, raw_data, missing_data) ==
    /\ phone' = phone_field(name, raw_data, missing_data)
    /\ UNCHANGED <<profiles, sub, pending, raced, users, mail, ctor, csrf>>

-----------------------------------------------------------------------------
\* The email fields of EmailProfileForm.

\* The filter of the email field: lower-cased unless None.
email_filter(x) == IF x # None THEN Lower(x) ELSE x

\* The filter of the email_repeat field: lower-cased unless None or ''.
email_repeat_filter(x) == IF Truthy(x) THEN Lower(x) ELSE x

\* current_user_email: TRUE when it raises StopValidation, the stored email of
\* the current user being the field's data.
current_user_email(stored, cur, data) == stored[cur] = data

\* flask_security's email_validator (the library's Email validator): TRUE for
\* an address local@domain whose domain has a dot inside and neither part is
\* empty or holds whitespace or '@'.  The versions of the library differ on
\* other strings; they agree with this on the values submitted here.
email_validator(data) ==
    \E i \in 2..(Len(data) - 1) :
        /\ data[i] = 64
        /\ \A j \in 1..Len(data) : (j # i => data[j] # 64) /\ ~IsSpace(data[j])
        /\ \E j \in (i + 2)..(Len(data) - 1) : data[j] = 46
        /\ data[i + 1] # 46

\* flask_security's unique_user_email: TRUE when the address is free, the
\* datastore finding no user with it, whatever the letter case.
unique_user_email(stored, data) ==
    ~\E u \in Users : Lower(stored[u]) = Lower(data)

\* The email field: its data after the filter, the validators that ran, in
\* order, the one that stopped the chain and the errors of the field.  Only
\* StopValidation ends the chain; after a ValidationError the next validator
\* runs.  The library's email_validator raises the one or the other, depending
\* on the library installed: email_validator_stops says which.
email_field(stored, cur, raw_data, missing_data, email_validator_stops) ==
    LET data == email_filter(process_formdata(raw_data, missing_data))
        base == [raw_data |-> raw_data, data |-> data]
    IN  IF Optional(raw_data)
        THEN base @@ [ran |-> <<"Optional">>, stopped |-> "Optional", errors |-> << >>]
        ELSE IF current_user_email(stored, cur, data)
        THEN base @@ [ran |-> <<"Optional", "current_user_email">>,
                      stopped |-> "current_user_email", errors |-> << >>]
        ELSE IF ~email_validator(data) /\ email_validator_stops
        THEN base @@ [ran |-> <<"Optional", "current_user_email", "email_validator">>,
                      stopped |-> "email_validator",
                      errors |-> <<"Invalid email address">>]
        ELSE base @@ [ran |-> <<"Optional", "current_user_email", "email_validator",
                                "unique_user_email">>,
                      stopped |-> "",
                      errors |-> (IF email_validator(data) THEN << >>
                                  ELSE <<"Invalid email address">>)
                                 \o (IF unique_user_email(stored, data) THEN << >>
                                     ELSE <<"Email already associated with an account">>)]

\* The email_repeat field: Optional, then EqualTo('email').
email_repeat_field(email_data, raw_data, missing_data) ==
    LET data == email_repeat_filter(process_formdata(raw_data, missing_data))
        base == [raw_data |-> raw_data, data |-> data]
    IN  IF Optional(raw_data)
        THEN base @@ [ran |-> <<"Optional">>, stopped |-> "Optional", errors |-> << >>]
        ELSE base @@ [ran |-> <<"Optional", "EqualTo">>, stopped |-> "",
                      errors |-> IF data # email_data
                                 THEN <<"Email addresses do not match.">>
                                 ELSE << >>]

\* EmailProfileForm.validate for the two email fields (the other fields of the
\* form holding valid values); stops: the library's email_validator raises
\* StopValidation.
EmailProfileForm(stored, cur, raw_email, raw_repeat, missing_data, stops) ==
    LET e == email_field(stored, cur, raw_email, missing_data, stops)
        r == email_repeat_field(e.data, raw_repeat, missing_data)
    IN  [submitted |-> TRUE, user |-> cur, email |-> e, email_repeat |-> r,
         valid |-> e.errors = << >> /\ r.errors = << >>]

\* Addresses: a@b.cc, A@b.cc, c@b.cc, b@b.cc.
EmailA == <<Chr.a, Chr.at, Chr.b, Chr.dot, Chr.c, Chr.c>>
EmailUpperA == <<Chr.A, Chr.at, Chr.b, Chr.dot, Chr.c, Chr.c>>
EmailC == <<Chr.c, Chr.at, Chr.b, Chr.dot, Chr.c, Chr.c>>
EmailB == <<Chr.b, Chr.at, Chr.b, Chr.dot, Chr.c, Chr.c>>

\* The emails accounts are stored with.
StoredEmails == {EmailA, EmailUpperA, EmailC, EmailB}

\* The emails submitted, among them a blank one, an empty one and ones that
\* are no address.
EmailInputs ==
    StoredEmails \cup {<<Chr.a, Chr.at>>, <<Chr.a, Chr.b>>, <<Chr.sp>>, << >>}

\* The account tables in which no two users have the same email, whatever the
\* letter case.
UniqueEmails ==
    {s \in [Users -> StoredEmails] :
        \A u, v \in Users : u # v => Lower(s[u]) # Lower(s[v])}

NoField ==
    [raw_data |-> << >>, data |-> None, ran |-> << >>, stopped |-> "", errors |-> << >>]

NoMail ==
    [submitted |-> FALSE, user |-> 0, email |-> NoField, email_repeat |-> NoField,
     valid |-> FALSE]

\* A logged-in user submits the email fields of the profile form.
SubmitEmailForm(cur, raw_email, raw_repeat, missing_data, email_validator_stops) ==
    /\ mail' = EmailProfileForm(users, cur, raw_email, raw_repeat, missing_data,
                                email_validator_stops)
    /\ UNCHANGED <<profiles, sub, pending, raced, phone, users, ctor, csrf>>

-----------------------------------------------------------------------------
\* ProfileForm.__init__.

\* The fields ProfileForm declares.
FormFields ==
    {"username", "last_name", "first_name", "birth_date", "street",
     "postal_code", "city", "home_phone", "business_phone", "mobile_phone",
     "other_phone", "gender", "country", "keep_history"}

\* A configuration entry: not set, or a callable returning a list.
NotConfigured == [set |-> FALSE, returns |-> << >>]
Configured(list) == [set |-> TRUE, returns |-> list]

\* The loop over the configured names: read_only(getattr(self, field)) marks
\* each field in turn; a name that is no field of the form raises
\* AttributeError and ends the loop.
RECURSIVE read_only_loop(_, _)
read_only_loop(names, acc) ==
    IF names = << >> THEN acc
    ELSE IF Head(names) \notin FormFields
    THEN [acc EXCEPT !.status = "AttributeError"]
    ELSE read_only_loop(Tail(names),
            [acc EXCEPT !.readonly = @ \cup {Head(names)},
                        !.steps = Append(@, "read_only")])

\* A bug: the loop leaves out the last configured name.
read_only_fields_but_last(names, acc) ==
    read_only_loop(IF names = << >> THEN names
                   ELSE SubSeq(names, 1, Len(names) - 1), acc)

\* for field in get_readonly_fields(): read_only(getattr(self, field))
read_only_fields(names, acc) == read_only_loop(names, acc)

\* ProfileForm.__init__ under the configuration given: how it ended, what it
\* did in order, the fields marked read-only and the choices of country.
ProfileForm_init(readonly_cfg, countries_cfg) ==
    LET bound == [status |-> "ok", steps |-> <<"bind">>, readonly |-> {},
                  choices |-> << >>]
    IN  IF ~readonly_cfg.set
        \* config.get(..., []) returns the list [], and calling it raises
        THEN [bound EXCEPT !.status = "TypeError"]
        ELSE LET marked == read_only_fields(readonly_cfg.returns, bound)
             IN  IF marked.status # "ok" THEN marked
                 ELSE IF countries_cfg.set
                 THEN [marked EXCEPT !.choices = countries_cfg.returns,
                                     !.steps = Append(@, "countries")]
                 ELSE marked

\* The lists USERPROFILES_READONLY_FIELDS returns: names of fields, repeated
\* or not, and a name that is no field of ProfileForm.
ReadonlyLists ==
    UNION {[1..k -> {"username", "first_name", "country", "email"}] :
           k \in 0..MaxReadonly}

\* The lists USERPROFILES_COUNTRIES returns.
CountryLists == {<< >>, <<"CH">>, <<"CH", "FR">>}

NoCtor ==
    [built |-> FALSE, readonly_cfg |-> NotConfigured, countries_cfg |-> NotConfigured,
     form |-> [status |-> "", steps |-> << >>, readonly |-> {}, choices |-> << >>]]

\* A ProfileForm is constructed under some configuration of the application.
Construct(readonly_cfg, countries_cfg) ==
    /\ ctor' = [built |-> TRUE, readonly_cfg |-> readonly_cfg,
                countries_cfg |-> countries_cfg,
                form |-> ProfileForm_init(readonly_cfg, countries_cfg)]
    /\ UNCHANGED <<profiles, sub, pending, raced, phone, users, mail, csrf>>

-----------------------------------------------------------------------------
\* The registration forms with the embedded profile form.

\* A dict is a function from its keys; {} is the function without keys.
EmptyDict == << >>

\* None where a dict is expected: a value that is no dict.
PyNone == "None" :> TRUE
IsNone(x) == x = PyNone

\* _update_with_csrf_disabled: the dict with CSRF disabled the way the
\* installed Flask-WTF takes it (supports_meta: version >= 0.14.0), or the
\* exception raised.  setdefault keeps a 'meta' the caller passed, None
\* included, and None has no update.  Both callers pass their kwargs, a dict;
\* the default d=None is not used.
_update_with_csrf_disabled(d, supports_meta) ==
    IF supports_meta
    THEN LET d1 == d @@ ("meta" :> EmptyDict)
         IN  IF IsNone(d1["meta"])
             THEN [raised |-> "AttributeError", d |-> d1]
             ELSE [raised |-> "",
                   d |-> ("meta" :> (("csrf" :> FALSE) @@ d1["meta"])) @@ d1]
    ELSE [raised |-> "", d |-> ("csrf_enabled" :> FALSE) @@ d]

\* wtforms.Form.__init__ takes meta when it is a dict, and meta['csrf'] True
\* switches on the CSRF of WTForms.
wtforms_meta_csrf(kwargs) ==
    /\ "meta" \in DOMAIN kwargs
    /\ ~IsNone(kwargs["meta"])
    /\ "csrf" \in DOMAIN kwargs["meta"]
    /\ kwargs["meta"]["csrf"]

\* FlaskForm.__init__: whether the form built with these arguments has CSRF
\* enabled.  From 0.14.0 a csrf_enabled argument is moved to meta['csrf']
\* unless meta has the key, and meta['csrf'] decides; without either the
\* application's default does.  Before 0.14.0 csrf_enabled (or the default)
\* decides Flask-WTF's CSRF, and the other arguments, meta included, go on to
\* wtforms.Form.__init__.
FlaskForm_csrf(kwargs, supports_meta, default) ==
    IF supports_meta
    THEN IF "meta" \in DOMAIN kwargs /\ ~IsNone(kwargs["meta"])
                                     /\ "csrf" \in DOMAIN kwargs["meta"]
         THEN kwargs["meta"]["csrf"]
         ELSE IF "csrf_enabled" \in DOMAIN kwargs THEN kwargs["csrf_enabled"]
         ELSE default
    ELSE \/ IF "csrf_enabled" \in DOMAIN kwargs THEN kwargs["csrf_enabled"]
            ELSE default
         \/ wtforms_meta_csrf(kwargs)

\* CsrfDisabledProfileForm.__init__: the arguments it passes on, whether
\* FlaskForm.__init__ has CSRF enabled with them, and what ProfileForm.__init__,
\* which it ends with, does under the configuration given; when updating the
\* arguments raises, ProfileForm.__init__ is not called.
CsrfDisabledProfileForm(kwargs, supports_meta, default, readonly_cfg, countries_cfg) ==
    LET u == _update_with_csrf_disabled(kwargs, supports_meta)
    IN  IF u.raised # ""
        THEN [raised |-> u.raised, kwargs |-> u.d, csrf |-> FALSE, form |-> NoCtor.form]
        ELSE [raised |-> "", kwargs |-> u.d,
              csrf |-> FlaskForm_csrf(u.d, supports_meta, default),
              form |-> ProfileForm_init(readonly_cfg, countries_cfg)]

\* register_form_factory and confirm_register_form_factory: the class made
\* of the given Form and the field 'profile'.
form_factory(factory, Form) ==
    [name |-> IF factory = "register_form_factory" THEN "RegisterForm"
              ELSE "ConfirmRegisterForm",
     csrf |-> Form.csrf,
     fields |-> Form.fields \cup {"profile"},
     profile |-> "CsrfDisabledProfileForm"]

Factories == {"register_form_factory", "confirm_register_form_factory"}

\* The meta dicts a caller passes.
MetaDicts ==
    {c @@ l : c \in {EmptyDict, "csrf" :> TRUE, "csrf" :> FALSE},
              l \in {EmptyDict, "locales" :> "fr"}}

\* The keyword arguments a caller passes to the embedded form.
KwargsInputs ==
    {m @@ c @@ p : m \in {EmptyDict} \cup {"meta" :> x : x \in MetaDicts \cup {PyNone}},
                   c \in {EmptyDict, "csrf_enabled" :> TRUE, "csrf_enabled" :> FALSE},
                   p \in {EmptyDict, "prefix" :> "profile."}}

\* The base forms given to the factories.
BaseForms == {[csrf |-> c, fields |-> {"email", "password"}] : c \in BOOLEAN}

\* The configurations the embedded form is constructed under.
EmbeddedReadonly ==
    {NotConfigured, Configured(<< >>), Configured(<<"username">>),
     Configured(<<"email">>)}
EmbeddedCountries == {NotConfigured, Configured(<<"CH">>)}

NoCsrf ==
    [made |-> FALSE, called |-> FALSE, built |-> FALSE, factory |-> "",
     supports_meta |-> FALSE,
     base |-> [csrf |-> FALSE, fields |-> {}],
     form |-> [name |-> "", csrf |-> FALSE, fields |-> {}, profile |-> ""],
     kwargs_in |-> EmptyDict,
     profile |-> [raised |-> "", kwargs |-> EmptyDict, csrf |-> FALSE]]

\* A factory makes the form class for a base form.
MakeForm(factory, Form) ==
    /\ csrf' = [NoCsrf EXCEPT !.made = TRUE, !.factory = factory, !.base = Form,
                              !.form = form_factory(factory, Form)]
    /\ UNCHANGED <<profiles, sub, pending, raced, phone, users, mail, ctor>>

\* The form class made constructs the form of its profile field with the
\* arguments given: CsrfDisabledProfileForm.__init__, which ends with
\* ProfileForm.__init__ unless updating the arguments raised; the embedded
\* form is built when that completes.
ConstructProfileField(kwargs, supports_meta, readonly_cfg, countries_cfg) ==
    /\ csrf.made
    /\ LET p == CsrfDisabledProfileForm(kwargs, supports_meta, csrf.base.csrf,
                                        readonly_cfg, countries_cfg)
       IN  /\ csrf' = [csrf EXCEPT !.called = TRUE,
                                   !.built = (p.raised = "" /\ p.form.status = "ok"),
                                   !.supports_meta = supports_meta,
                                   !.kwargs_in = kwargs,
                                   !.profile = [raised |-> p.raised,
                                                kwargs |-> p.kwargs, csrf |-> p.csrf]]
           /\ ctor' = IF p.raised # "" THEN ctor
                      ELSE [built |-> TRUE, readonly_cfg |-> readonly_cfg,
                            countries_cfg |-> countries_cfg, form |-> p.form]
    /\ UNCHANGED <<profiles, sub, pending, raced, phone, users, mail>>

-----------------------------------------------------------------------------
\* Profile editing with validation and save as two steps of a request, so
\* that the requests of two users may interleave.

\* The usernames submitted by the interleaving requests.
InterleavedInputs ==
    { <<Chr.a, Chr.b, Chr.c>>, <<Chr.A, Chr.b, Chr.c>>, <<Chr.b, Chr.a, Chr.b>> }

\* The request of user cur validates a username; an accepted one waits to be
\* saved, a refused one leaves nothing to save.
Validate(cur, raw_data) ==
    LET f == username_field(profiles, cur, raw_data, None)
    IN  /\ pending' = [pending EXCEPT ![cur] =
                          IF Accepted(f) THEN [data |-> f.data, stale |-> FALSE]
                          ELSE NoPending]
        /\ UNCHANGED <<profiles, sub, raced, phone, users, mail, ctor, csrf>>

\* The request of user cur saves the username it validated.  The save is one
\* atomic step with its validation when no other save changed the store in
\* between; raced records that some save was not.
Save(cur) ==
    /\ pending[cur].data # None
    /\ profiles' = save_username(profiles, cur, pending[cur].data)
    /\ pending' = [u \in Users |->
                      IF u = cur THEN NoPending
                      ELSE IF pending[u].data # None /\ profiles' # profiles
                      THEN [pending[u] EXCEPT !.stale = TRUE]
                      ELSE pending[u]]
    /\ raced' = IF pending[cur].stale \/ raced = "raced" THEN "raced" ELSE "atomic"
    /\ UNCHANGED <<sub, phone, users, mail, ctor, csrf>>

-----------------------------------------------------------------------------
\* Specifications.

IdleProfiles ==
    /\ sub = NoSubmission
    /\ pending = [u \in Users |-> NoPending]
    /\ raced = "none"

IdleOthers ==
    /\ phone = NoPhone
    /\ users = [u \in Users |-> None]
    /\ mail = NoMail
    /\ ctor = NoCtor
    /\ csrf = NoCsrf

\* Profile editing, one request at a time.
Init ==
    /\ profiles \in UniqueStores
    /\ IdleProfiles
    /\ IdleOthers

Next ==
    \/ \E cur \in Users \cup {Anonymous}, in \in FieldInputs(UsernameInputs) :
          SubmitProfile(cur, in.raw_data, in.missing_data)
    \/ SaveProfile

Spec == Init /\ [][Next]_vars

\* Profile editing, validation and save interleaving.
InitInterleaved ==
    /\ profiles \in {s \in UniqueStores :
                        \A u \in Users : s[u] \in InterleavedInputs \cup {None}}
    /\ IdleProfiles
    /\ IdleOthers

NextInterleaved ==
    \/ \E cur \in Users, raw_data \in RawData(InterleavedInputs) : Validate(cur, raw_data)
    \/ \E cur \in Users : Save(cur)

SpecInterleaved == InitInterleaved /\ [][NextInterleaved]_vars

\* The state before any form was submitted or constructed.
InitIdle ==
    /\ profiles = [u \in Users |-> None]
    /\ IdleProfiles
    /\ IdleOthers

NextPhone ==
    \E name \in PhoneFields, in \in FieldInputs(PhoneInputs) :
        ValidatePhone(name, in.raw_data, in.missing_data)

\* The phone fields.
SpecPhone == InitIdle /\ [][NextPhone]_vars

\* The email fields.
InitEmail ==
    /\ profiles = [u \in Users |-> None]
    /\ IdleProfiles
    /\ phone = NoPhone
    /\ users \in UniqueEmails
    /\ mail = NoMail
    /\ ctor = NoCtor
    /\ csrf = NoCsrf

NextEmail ==
    \E cur \in Users, raw_email \in RawData(EmailInputs),
       raw_repeat \in RawData(EmailInputs), missing_data \in MissingData,
       email_validator_stops \in BOOLEAN :
        SubmitEmailForm(cur, raw_email, raw_repeat, missing_data, email_validator_stops)

SpecEmail == InitEmail /\ [][NextEmail]_vars

\* The constructor.
NextCtor ==
    \E readonly_cfg \in {NotConfigured} \cup {Configured(l) : l \in ReadonlyLists},
       countries_cfg \in {NotConfigured} \cup {Configured(l) : l \in CountryLists} :
        Construct(readonly_cfg, countries_cfg)

SpecCtor == InitIdle /\ [][NextCtor]_vars

\* The factories.
NextCsrf ==
    \/ \E factory \in Factories, Form \in BaseForms : MakeForm(factory, Form)
    \/ \E kwargs \in KwargsInputs, supports_meta \in BOOLEAN,
          readonly_cfg \in EmbeddedReadonly, countries_cfg \in EmbeddedCountries :
          ConstructProfileField(kwargs, supports_meta, readonly_cfg, countries_cfg)

SpecCsrf == InitIdle /\ [][NextCsrf]_vars

-----------------------------------------------------------------------------
\* Properties.

Range(seq) == {seq[i] : i \in 1..Len(seq)}

AlreadyExists == <<"Username already exists.">>

\* C1: a username is accepted only if no profile of another user holds it,
\* and whenever the lookup returns the profile of a user other than the
\* current one the field fails with 'Username already exists.'.
C1_UsernameUniqueness ==
    sub.submitted =>
        /\ Accepted(sub) => sub.others = {}
        /\ (sub.lookup = "found" /\ sub.found # sub.user) => sub.errors = AlreadyExists

\* A logged-in user was refused the username of another user's profile.
C1_Witness ==
    /\ sub.submitted
    /\ sub.user \in Users
    /\ sub.lookup = "found"
    /\ sub.found \in Users \ {sub.user}
    /\ sub.others = {sub.found}
    /\ sub.errors = AlreadyExists

\* C7: the format check runs before the lookup; a username of a wrong format
\* fails with the ValueError and is never looked up; a lookup that raises
\* NoResultFound accepts the username.
C7_ValidationOrder ==
    sub.submitted =>
        /\ sub.calls # << >> => sub.calls[1] = "validate_username"
        /\ (DataRequired(sub.data) /\ ~validators_validate_username(sub.data))
              => (sub.errors = <<"ValueError">> /\ sub.calls = <<"validate_username">>)
        /\ "ValueError" \in Range(sub.errors) => "get_by_username" \notin Range(sub.calls)
        /\ sub.lookup = "NoResultFound" => Accepted(sub)

\* A username of a wrong format was refused while a profile holds a username
\* (so that a lookup had something to find).
C7_Witness ==
    /\ sub.submitted
    /\ sub.errors = <<"ValueError">>
    /\ sub.calls = <<"validate_username">>
    /\ \E u \in Users : profiles[u] # None

\* C8: a logged-in user submitting the username of their own profile is never
\* refused with 'Username already exists.'; an anonymous user is refused with
\* it whenever the lookup finds a profile.
C8_OwnUsernameVersusAnonymous ==
    sub.submitted =>
        /\ (sub.user # Anonymous /\ sub.own # None /\ sub.data = sub.own)
              => sub.errors # AlreadyExists
        /\ (sub.user = Anonymous /\ sub.lookup = "found") => sub.errors = AlreadyExists

\* A logged-in user submitted their own username, the lookup returned their
\* own profile, and the username was accepted.
C8_Witness ==
    /\ sub.submitted
    /\ sub.user \in Users
    /\ sub.own # None
    /\ sub.data = sub.own
    /\ sub.found = sub.user
    /\ Accepted(sub)

\* An anonymous visitor was refused a username that a profile holds.
C8_WitnessAnonymous ==
    /\ sub.submitted
    /\ sub.user = Anonymous
    /\ sub.lookup = "found"
    /\ sub.errors = AlreadyExists

\* C10: as long as every save was one atomic step with its validation, no two
\* profiles hold the same username.
C10_UniquenessPreserved == raced # "raced" => UniqueUsernames(profiles)

\* Usernames were saved, each atomically with its validation, and every user
\* holds one.
C10_Witness ==
    /\ raced = "atomic"
    /\ \A u \in Users : profiles[u] # None

\* C10, second part: with two validations before either save, a store in
\* which two profiles hold the same username is reached.
C10_RaceDuplicate == raced = "raced" /\ ~UniqueUsernames(profiles)

\* A string of '+' followed by at least the given number of digits, and
\* nothing else.
PlusThenDigits(s, least) ==
    /\ Len(s) >= 1 + least
    /\ s[1] = 43
    /\ \A i \in 2..Len(s) : IsDigit(s[i])

\* The submitted phone value without surrounding whitespace ('' when the
\* field was not submitted).
PhoneValue == IF phone.raw_data = << >> THEN << >> ELSE Strip(phone.raw_data[1])

\* The phone fields accept exactly the empty value and '+' followed by digits
\* only, judged after the strip filter, and refuse the rest with the message.
PhoneAcceptedIff ==
    phone.submitted =>
        /\ phone.errors = << >> <=> (PhoneValue = << >> \/ PlusThenDigits(PhoneValue, 0))
        /\ phone.errors # << >> => phone.errors = <<PhoneMessage>>

\* C4: the above, and every accepted value that is not empty is '+' followed
\* by at least one digit.
C4_PhoneValidation ==
    /\ PhoneAcceptedIff
    /\ (phone.submitted /\ phone.errors = << >> /\ PhoneValue # << >>)
          => PlusThenDigits(PhoneValue, 1)

\* The value of an email field after its filter, a field that was not
\* submitted or was left blank counting as empty.
EmailValue(f) == IF Optional(f.raw_data) THEN << >> ELSE f.data

\* C2: the form never validates when the value of email_repeat differs from
\* the value of email (after the filters), an empty or missing email_repeat
\* included.  (The message 'Email addresses do not match.' is the error
\* EqualTo gives; UnmatchedRepeatIsRefused states it where EqualTo runs.)
C2_EmailConfirmation ==
    (mail.submitted /\ EmailValue(mail.email_repeat) # EmailValue(mail.email))
        => ~mail.valid

\* An email_repeat that was submitted and differs from email is refused.
UnmatchedRepeatIsRefused ==
    (/\ mail.submitted
     /\ ~Optional(mail.email_repeat.raw_data)
     /\ mail.email_repeat.data # mail.email.data)
        => /\ ~mail.valid
           /\ mail.email_repeat.errors = <<"Email addresses do not match.">>

\* The validators of the email field run in the declared order.
EmailChain == <<"Optional", "current_user_email", "email_validator", "unique_user_email">>

\* C3: a submitted email that is the current user's stored email stops the
\* chain at current_user_email: the later validators do not run and the field
\* has no error.
C3_UnchangedEmailStops ==
    (mail.submitted /\ mail.email.raw_data = <<users[mail.user]>>)
        => /\ mail.email.stopped = "current_user_email"
           /\ mail.email.ran = SubSeq(EmailChain, 1, 2)
           /\ mail.email.errors = << >>

\* The same for a stored email without upper-case letters.
UnchangedLowerCaseEmailStops ==
    (/\ mail.submitted
     /\ mail.email.raw_data = <<users[mail.user]>>
     /\ users[mail.user] = Lower(users[mail.user]))
        => /\ mail.email.stopped = "current_user_email"
           /\ mail.email.ran = SubSeq(EmailChain, 1, 2)
           /\ mail.email.errors = << >>

\* C5: a constructor that completed marked exactly the fields the configured
\* callable returned, and marked them after the base form bound its fields.
C5_ReadOnlyFromConfiguration ==
    (ctor.built /\ ctor.form.status = "ok")
        => /\ ctor.readonly_cfg.set
           /\ ctor.form.readonly = Range(ctor.readonly_cfg.returns)
           /\ ctor.form.steps[1] = "bind"
           /\ \A i \in 2..Len(ctor.form.steps) : ctor.form.steps[i] # "bind"

\* A constructor completed with some fields, not all, marked read-only.
C5_Witness ==
    /\ ctor.built
    /\ ctor.form.status = "ok"
    /\ ctor.form.readonly = {"username", "country"}
    /\ Len(ctor.form.steps) >= 3

\* C9: without either configuration entry the constructor completes, marks no
\* field and leaves the choices of country empty; with USERPROFILES_COUNTRIES
\* configured and the constructor completing, the choices are what it returns.
C9_UnconfiguredDefaults ==
    ctor.built =>
        /\ (~ctor.readonly_cfg.set /\ ~ctor.countries_cfg.set)
              => /\ ctor.form.status = "ok"
                 /\ ctor.form.readonly = {}
                 /\ ctor.form.choices = << >>
        /\ (ctor.countries_cfg.set /\ ctor.form.status = "ok")
              => ctor.form.choices = ctor.countries_cfg.returns

\* With the read-only callable configured: without USERPROFILES_COUNTRIES the
\* choices stay empty, with it they are what it returns.
CountriesWhenReadonlyConfigured ==
    (ctor.built /\ ctor.form.status = "ok")
        => ctor.form.choices = IF ctor.countries_cfg.set
                               THEN ctor.countries_cfg.returns ELSE << >>

\* The key _update_with_csrf_disabled sets for the installed version.
CsrfKey == IF csrf.supports_meta THEN "meta" ELSE "csrf_enabled"

MetaCsrfLeftOn ==
    /\ csrf.built
    /\ ~csrf.supports_meta
    /\ csrf.profile.kwargs["csrf_enabled"] = FALSE
    /\ wtforms_meta_csrf(csrf.kwargs_in)
    /\ wtforms_meta_csrf(csrf.profile.kwargs)
    /\ csrf.profile.csrf = TRUE

\* From 0.14.0 the caller's meta=None makes the constructor raise.
MetaNoneRaises ==
    /\ csrf.called
    /\ csrf.supports_meta
    /\ "meta" \in DOMAIN csrf.kwargs_in
    /\ IsNone(csrf.kwargs_in["meta"])
    /\ csrf.profile.raised = "AttributeError"
    /\ ~csrf.built

\* What the code does do: the only exception of the update is the one on
\* meta=None from 0.14.0; otherwise the branch's key is False in the arguments
\* passed on, every other key of kwargs and of meta is the caller's, and the
\* form has CSRF disabled unless, before 0.14.0, the caller's meta switches it
\* on; the embedded form is built only when ProfileForm.__init__ completed.
CsrfKeyDisabled ==
    csrf.called =>
        LET in == csrf.kwargs_in
            out == csrf.profile.kwargs
        IN  /\ csrf.profile.raised # ""
                  <=> (csrf.supports_meta /\ "meta" \in DOMAIN in /\ IsNone(in["meta"]))
            /\ csrf.profile.raised = "" =>
                  /\ IF csrf.supports_meta THEN out["meta"]["csrf"] = FALSE
                     ELSE out["csrf_enabled"] = FALSE
                  /\ DOMAIN out = DOMAIN in \cup {CsrfKey}
                  /\ \A k \in DOMAIN in \ {CsrfKey} : out[k] = in[k]
                  /\ (csrf.supports_meta /\ "meta" \in DOMAIN in)
                        => /\ DOMAIN out["meta"] = DOMAIN in["meta"] \cup {"csrf"}
                           /\ \A k \in DOMAIN in["meta"] \ {"csrf"} :
                                  out["meta"][k] = in["meta"][k]
                  /\ csrf.profile.csrf <=> (~csrf.supports_meta /\ wtforms_meta_csrf(in))
            /\ csrf.built => (csrf.profile.raised = "" /\ ctor.form.status = "ok")

\* Requests being handled one at a time, no two profiles hold the same
\* username.
SequentialUnique == UniqueUsernames(profiles)

====
